---------------------------- MODULE Spec2Model ----------------------------
(***************************************************************************)
(* Model of hls_downloader.py: the command-line entry point (main), the    *)
(* batch controllers (handle_movie, handle_tv) and the transcode           *)
(* supervisor (run_ffmpeg) together with the child transcoder process, the *)
(* filesystem paths they touch and the operator's interrupt.               *)
(*                                                                         *)
(* One Python thread runs the program; pc is its position.  The child      *)
(* process and the operator are the only other actors.  The child talks to *)
(* run_ffmpeg through two bounded pipes, its standard output (progress     *)
(* lines) and its standard error (diagnostics).  The playlist resolver     *)
(* (extract_playlist_data, build_playlist_url) is computed on the pages    *)
(* the catalog serves.                                                     *)
(***************************************************************************)
EXTENDS Integers, Sequences, FiniteSets, TLC

(***************************************************************************)
(* Bounds of the model.                                                    *)
(***************************************************************************)
MaxItems == 3      \* items of the catalog's episode listing
MaxBatch == 2      \* items of the listing when the environment may fail
MaxParams == 2     \* query parameters of the playlist URL a page embeds
MaxWrites == 3     \* writes the transcoder makes to its two pipes
PipeCapacity == 2  \* writes a pipe buffers before the writer blocks

\* The season and episode numbers the catalog may report, and the values a
\* range bound may be given on the command line (0 is accepted by argparse).
Seasons == {1, 2}
EpisodeNums == {1, 2}
BoundValues == {0, 1, 2}

\* Python's None, and an Optional[int] command-line value: <<>> or <<n>>.
None == <<>>
OptInts(S) == {None} \cup {<<n>> : n \in S}

\* A unit of work: <<season, episode>>; the single movie is <<0, 0>>.
MovieUnit == <<0, 0>>
TvUnits == Seasons \X EpisodeNums
AllUnits == {MovieUnit} \cup TvUnits
\* The units the catalog may report when the environment may fail.
BatchUnits == {<<1, 1>>, <<1, 2>>, <<2, 1>>}

Range(s) == {s[i] : i \in DOMAIN s}

RECURSIVE SeqsUpTo(_, _)
SeqsUpTo(S, n) ==
    IF n = 0 THEN {<<>>}
    ELSE LET shorter == SeqsUpTo(S, n - 1)
         IN  shorter \cup {Append(q, x) : q \in {r \in shorter : Len(r) = n - 1}, x \in S}

(***************************************************************************)
(* Pure helpers of the program.                                            *)
(***************************************************************************)

\* Variant of Sorted that yields the members in descending order.
RECURSIVE SortedDescending(_)
SortedDescending(S) ==
    IF S = {} THEN <<>>
    ELSE LET m == CHOOSE x \in S : \A y \in S : x >= y
         IN  <<m>> \o SortedDescending(S \ {m})

\* sorted(...) of a set of integers: the ascending sequence of its members.
RECURSIVE Sorted(_)
Sorted(S) ==
    IF S = {} THEN <<>>
    ELSE LET m == CHOOSE x \in S : \A y \in S : x <= y
         IN  <<m>> \o Sorted(S \ {m})

\* get_available_episodes, the loop body: the list episodes[s] after every
\* item of the listing has been appended under its season, in listing order.
RECURSIVE EpisodeList(_, _)
EpisodeList(items, s) ==
    IF items = <<>> THEN <<>>
    ELSE LET rest == EpisodeList(Tail(items), s)
         IN  IF Head(items)[1] = s THEN <<Head(items)[2]>> \o rest ELSE rest

\* get_available_episodes: the dict season -> list of episode numbers.
GroupEpisodes(items) ==
    [s \in {it[1] : it \in Range(items)} |-> EpisodeList(items, s)]

RECURSIVE SumLen(_, _)
SumLen(eps, S) ==
    IF S = {} THEN 0
    ELSE LET s == CHOOSE x \in S : TRUE
         IN  Len(eps[s]) + SumLen(eps, S \ {s})

\* handle_tv: total = sum(len(v) for v in episodes.values())
TotalOf(eps) == SumLen(eps, DOMAIN eps)

\* sorted(...) of a list: ascending, duplicates kept.
RECURSIVE SortList(_)
SortList(q) ==
    IF q = <<>> THEN <<>>
    ELSE LET m == CHOOSE x \in Range(q) : \A y \in Range(q) : x <= y
             i == CHOOSE k \in DOMAIN q : q[k] = m
         IN  <<m>> \o SortList(SubSeq(q, 1, i - 1) \o SubSeq(q, i + 1, Len(q)))

\* Variant of EpisodeOrder without the de-duplication: sorted(episodes[season]).
EpisodeOrderNoSet(eps, s) == SortList(eps[s])

\* handle_tv: sorted(set(episodes[season]))
EpisodeOrder(eps, s) == Sorted(Range(eps[s]))

\* Python truthiness of an Optional[int]: None and 0 are false.
Truthy(opt) == opt # None /\ opt[1] # 0

\* Variant of MakeRange that takes a missing bound as 0 as soon as one bound
\* is given: (a or 0, b or 0) if a is not None or b is not None else None.
MakeRangeOrZero(from, to) ==
    IF from = None /\ to = None THEN None
    ELSE <<IF from = None THEN 0 ELSE from[1], IF to = None THEN 0 ELSE to[1]>>

\* main: (a, b) if a and b else None
MakeRange(from, to) ==
    IF Truthy(from) /\ Truthy(to) THEN <<from[1], to[1]>> ELSE None

\* handle_tv: "if rng and not rng[0] <= x <= rng[1]: continue" -- TRUE when
\* the loop body goes on with x.
Passes(rng, x) == rng = None \/ (rng[1] <= x /\ x <= rng[2])

\* os.path.exists(f) and os.path.getsize(f) > 0
NonEmptyFile(content) == content \notin {"absent", "empty"}

\* Variant of ResumeSkips with the test of the file inverted.
ResumeSkipsInverted(resume, content) == resume /\ ~NonEmptyFile(content)

\* handle_movie / handle_tv: config.resume and os.path.exists(file) and getsize > 0
ResumeSkips(resume, content) == resume /\ NonEmptyFile(content)

\* A catalog page, as far as the three regular expressions of
\* extract_playlist_data see it: per field None when the text has no
\* "url: '...'", "'token': '...'", "'expires': '...'" literal, else <<text>>,
\* the text between the quotes (which may be empty).  The text of the url
\* literal is a URL: what precedes "?" and the query string, a sequence of
\* <<name, value>> pairs.
PlaylistFields == {"url", "token", "expires"}
ParamKeys == {"a", "h", "token"}
ParamValues == {"", "1", "2"}
Queries == SeqsUpTo(ParamKeys \X ParamValues, MaxParams)
Url(q) == [path |-> "/playlist/1", query |-> q]
Pages ==
    [url : {None, <<[path |-> "/embed/1", query |-> <<>>]>>} \cup {<<Url(q)>> : q \in Queries},
     token : {None, <<"">>, <<"t">>},
     expires : {None, <<"e">>}]
PlainPage == [url |-> <<Url(<<>>)>>, token |-> <<"t">>, expires |-> <<"e">>]
NoPage == [url |-> None, token |-> None, expires |-> None]

\* re.search with the group "([^']+)": a match needs the literal with a
\* non-empty text between the quotes.
Matched(field) == field # None /\ field[1] # ""

\* re.search with the group "([^']+/playlist/\d+[^']*)": a match needs the
\* url literal with "/playlist/<digits>" in its text.
MatchedUrl(field) == field # None /\ field[1].path = "/playlist/1"

\* Variant of extract_playlist_data that is content with the url alone.
extract_playlist_data_partial(html) ==
    IF ~MatchedUrl(html.url) THEN None
    ELSE [playlist_url |-> html.url[1],
          token |-> IF Matched(html.token) THEN html.token[1] ELSE "",
          expires |-> IF Matched(html.expires) THEN html.expires[1] ELSE ""]

\* extract_playlist_data: None unless all three searches match.
extract_playlist_data(html) ==
    IF ~(MatchedUrl(html.url) /\ Matched(html.token) /\ Matched(html.expires)) THEN None
    ELSE [playlist_url |-> html.url[1],
          token |-> html.token[1],
          expires |-> html.expires[1]]

\* A dict is held as the sequence of its <<key, value>> entries in insertion
\* order.  The value parse_qs stores is the list of the key's values.
HasKey(d, k) == \E i \in DOMAIN d : d[i][1] = k

\* urllib.parse.parse_qs(qs) with its defaults (keep_blank_values=False): a
\* pair whose value is empty is dropped; the others are grouped by name.
RECURSIVE parse_qs(_)
parse_qs(q) ==
    IF q = <<>> THEN <<>>
    ELSE LET d == parse_qs(SubSeq(q, 1, Len(q) - 1))
             kv == q[Len(q)]
         IN  IF kv[2] = "" THEN d
             ELSE IF HasKey(d, kv[1])
             THEN [i \in DOMAIN d |->
                      IF d[i][1] = kv[1] THEN <<d[i][1], Append(d[i][2], kv[2])>> ELSE d[i]]
             ELSE Append(d, <<kv[1], <<kv[2]>> >>)

\* d[k] = v for a string v, as dict.update does it: an existing key keeps
\* its place and loses its values.
DictSet(d, k, v) ==
    IF HasKey(d, k)
    THEN [i \in DOMAIN d |-> IF d[i][1] = k THEN <<k, <<v>> >> ELSE d[i]]
    ELSE Append(d, <<k, <<v>> >>)

\* urlencode(query, doseq=True): one "name=value" pair per value, in the
\* dict's order.
RECURSIVE urlencode(_)
urlencode(d) ==
    IF d = <<>> THEN <<>>
    ELSE [i \in 1..Len(d[1][2]) |-> <<d[1][1], d[1][2][i]>>] \o urlencode(Tail(d))

\* build_playlist_url: urlparse, parse_qs of the query, update with the
\* four keys, urlencode, urlunparse (which leaves the other parts alone).
build_playlist_url(d) ==
    LET query == parse_qs(d.playlist_url.query)
        updated == DictSet(DictSet(DictSet(DictSet(query,
                       "token", d.token), "expires", d.expires), "h", "1"), "lang", "en")
    IN  [d.playlist_url EXCEPT !.query = urlencode(updated)]

\* make_session: Retry(total=3, status_forcelist=[...]).  st is the status of
\* the last attempt the transport makes: a status of the retry set is
\* retried, and when the last attempt still has one the adapter raises
\* (RetryError) instead of returning the response.
status_forcelist == {429, 500, 502, 503, 504}
SessionGet(st) == [raised |-> st \in status_forcelist, status |-> st]

\* handle_tv / handle_movie: "if r.status_code != 200" -- TRUE when the page
\* is taken as found.
PageFound(r) == r.status = 200

\* Variant of check_tmdb_exists that finds every identifier.
check_tmdb_exists_always(c) == TRUE

\* check_tmdb_exists: any(item.get("tmdb_id") == tmdb_id for item in r.json())
check_tmdb_exists(c) == c.member

\* Variants of Caught: a bare "except:", and no handler at all.
CaughtBare(e) == TRUE
CaughtNothing(e) == FALSE

\* handle_tv: "except subprocess.CalledProcessError" around run_ffmpeg.
Caught(e) == e = "CalledProcessError"

\* run_ffmpeg: the statements inside "try:" (Popen, the drain loop, wait).
TryBlock == {"ff_popen", "ff_bind", "ff_drain", "ff_wait"}

\* A line of the transcoder's "-progress pipe:1" output, "key=value": its
\* key, whether the text after "=" is an integer literal, and that integer.
MicrosPerSecond == 1000000
ElapsedValues == {-500000, 400000, 900000, 1000000}
ProgressLines ==
    {[key |-> "out_time_ms", int |-> TRUE, value |-> v] : v \in ElapsedValues}
    \cup {[key |-> "out_time_ms", int |-> FALSE, value |-> 0],    \* "out_time_ms=N/A"
          [key |-> "frame", int |-> TRUE, value |-> 1]}
\* What the transcoder writes: a line to standard output, or a piece of
\* diagnostics to standard error.
ErrorText == [key |-> "error", int |-> FALSE, value |-> 0]
ChildWrites ==
    {[pipe |-> "stdout", line |-> l] : l \in ProgressLines}
    \cup {[pipe |-> "stderr", line |-> ErrorText]}
NoWrite == [pipe |-> "none", line |-> ErrorText]

\* run_ffmpeg: int(...) // 1_000_000 (floor division).
Seconds(v) == v \div MicrosPerSecond

\* Variant of Failed that misses the failure: "if process.returncode is None".
FailedIsNone(rc) == rc = -1

\* run_ffmpeg: "if process.returncode != 0" -- TRUE on the failure branch.
Failed(rc) == rc # 0

(***************************************************************************)
(* State.                                                                  *)
(***************************************************************************)
VARIABLES
    scenario,      \* what the environment may do: "adverse" (requests and the
                   \* transcoder may fail, the operator may interrupt and run
                   \* the program again), "plain" (nothing goes wrong) or
                   \* "resolver" (nothing goes wrong, any page is served) or
                   \* "supervise" (the transcoder writes to its pipes and
                   \* may fail)
    args,          \* parsed command line: mtype, resume, the four range bounds
    catalog,       \* the catalog service's data: member, items (episode listing)
    fs,            \* filesystem: dest[u], part[u] = content of the unit's paths
    rerun,         \* TRUE in an invocation that follows another one
    prevOutcome,   \* how that earlier invocation ended: "returned" or
                   \* "exception" ("none" without an earlier one)
    pc,            \* position of the Python thread
    outcome,       \* how the invocation ended: "running", "returned", or the
                   \* name of the exception that left main
    episodes, total, done, season, episode,   \* handle_tv locals
    seasonsLeft, episodesLeft,                \* the two for-loops' iterators
    html,          \* r.text of the last page handed to extract_playlist_data
    data,          \* result of extract_playlist_data
    stream_url,    \* run_ffmpeg's stream_url: what build_playlist_url returned
    output_file,   \* run_ffmpeg's destination: the unit whose path it is
    process,       \* run_ffmpeg local: "unbound" or "bound"
    returncode,    \* process.returncode after wait(); -1 stands for None
    ffExit,        \* how the last call of run_ffmpeg ended: kind ("running",
                   \* "returned" or the exception raised), the exit code the
                   \* exception carries, and what os.remove(temp_file) removed
    child,         \* the transcoder process: "none", "running", "exited", "killed"
    childrc,       \* the exit code the child exited with
    stdout,        \* the pipe process.stdout reads: lines written, not yet read
    stderr,        \* the pipe process.stderr reads: pieces written, not yet read
    writing,       \* the write the child is blocked in (NoWrite: none)
    writes,        \* writes the child has started
    last_seconds,  \* run_ffmpeg local
    seen,          \* elapsed values of the progress lines the loop has parsed
    printed,       \* the seconds the loop has printed, in order
    \* observations, for the properties only
    fsAtStart,     \* fs when the invocation started
    destBefore,    \* fs.dest[output_file] when run_ffmpeg was called
    netCalls,      \* HTTP requests made in this invocation
    pageFetches,   \* per unit: catalog page requests in this invocation
    launches,      \* per unit: transcoder launches in this invocation
    unpaced,       \* transcoder launches since the last sleep(0.4), or since
                   \* the invocation started
    progressLog,   \* the "Episode done/total" lines logged, in order
    skipped,       \* units skipped by the resume rule in this invocation
    failures,      \* <<unit, kind>> of the recoverable failures logged
    cancelled      \* where the operator's first interrupt arrived: "no",
                   \* "try" (inside run_ffmpeg's try block), "ffmpeg" (in
                   \* run_ffmpeg outside it) or "batch" (anywhere else)


tvVars == <<episodes, total, done, season, episode, seasonsLeft, episodesLeft>>
pageVars == <<html, data>>
ffVars == <<stream_url, output_file, process, returncode, destBefore>>
childVars == <<child, childrc>>
pipeVars == <<stdout, stderr, writing, writes>>
drainVars == <<last_seconds, seen, printed>>
obsVars == <<netCalls, pageFetches, launches, unpaced, progressLog, skipped, failures>>
inputVars == <<scenario, args, catalog, rerun, prevOutcome, fsAtStart>>
vars == <<inputVars, fs, pc, outcome, tvVars, pageVars, ffVars, ffExit,
          childVars, pipeVars, drainVars, obsVars, cancelled>>

\* What the environment may answer.
Statuses == IF scenario = "adverse" THEN {200, 204, 404, 503} ELSE {200}
Htmls == IF scenario = "resolver" THEN Pages
         ELSE IF scenario = "adverse" THEN {PlainPage, [PlainPage EXCEPT !.token = None]}
         ELSE {PlainPage}
ExitCodes == IF scenario \in {"adverse", "supervise"} THEN {0, 1} ELSE {0}
Oks == IF scenario = "adverse" THEN BOOLEAN ELSE {TRUE}

Zero == [u \in AllUnits |-> 0]

NotCalled == [kind |-> "not called", code |-> 0, removed |-> "nothing"]

UnitsIn(a, c) == IF a.mtype = "movie" THEN {MovieUnit} ELSE Range(c.items)

\* The states after the command line is parsed, for inputs drawn from the
\* given sets.  Only the paths of the units the invocation can reach may
\* hold something beforehand.
InitWith(sc, Args, Catalogs, Dests, Parts) ==
    /\ scenario = sc
    /\ args \in Args
    /\ catalog \in Catalogs
    /\ fs \in [dest : [AllUnits -> Dests], part : [AllUnits -> Parts]]
    /\ \A u \in AllUnits \ UnitsIn(args, catalog) :
            fs.dest[u] = "absent" /\ fs.part[u] = "absent"
    /\ rerun = FALSE /\ prevOutcome = "none"
    /\ pc = "main"
    /\ outcome = "running"
    /\ episodes = <<>> /\ total = 0 /\ done = 0 /\ season = 0 /\ episode = 0
    /\ seasonsLeft = <<>> /\ episodesLeft = <<>>
    /\ html = NoPage /\ data = None
    /\ stream_url = None
    /\ output_file = MovieUnit /\ process = "unbound" /\ returncode = -1
    /\ child = "none" /\ childrc = -1
    /\ stdout = <<>> /\ stderr = 0 /\ writing = NoWrite /\ writes = 0
    /\ last_seconds = -1 /\ seen = <<>> /\ printed = <<>>
    /\ ffExit = NotCalled
    /\ fsAtStart = fs /\ destBefore = fs.dest[MovieUnit]
    /\ netCalls = 0 /\ pageFetches = Zero /\ launches = Zero /\ unpaced = 0
    /\ progressLog = <<>> /\ skipped = {} /\ failures = {}
    /\ cancelled = "no"

(***************************************************************************)
(* Control transfers.                                                      *)
(***************************************************************************)

\* An exception that reaches the top of main: the invocation ends with it.
Uncaught(e) == pc' = "done" /\ outcome' = e

\* main / handle_movie / handle_tv return.
Return == pc' = "done" /\ outcome' = "returned"

\* An exception e leaves run_ffmpeg.  handle_tv catches what its except
\* clause names, logs and continues with the next episode (skipping the
\* sleep); handle_movie and main catch nothing.
RaiseFromFfmpeg(e) ==
    /\ ffExit' = [ffExit EXCEPT !.kind = e,
                                 !.code = IF e = "CalledProcessError" THEN returncode ELSE 0]
    /\ IF args.mtype = "tv" /\ Caught(e)
       THEN /\ pc' = "tv_episode"
            /\ outcome' = outcome
            /\ failures' = failures \cup {<<output_file, "transcode">>}
       ELSE /\ Uncaught(e)
            /\ failures' = failures

\* run_ffmpeg returns normally to its caller.
ReturnFromFfmpeg ==
    /\ pc' = (IF args.mtype = "tv" THEN "tv_sleep" ELSE "mv_saved")
    /\ outcome' = outcome
    /\ ffExit' = [ffExit EXCEPT !.kind = "returned"]

\* Entry of run_ffmpeg(stream_url, output_file, config): lines 76-110.
CallFfmpeg(url, u) ==
    /\ pc' = "ff_popen"
    /\ stream_url' = url
    /\ output_file' = u
    /\ destBefore' = fs.dest[u]
    /\ process' = "unbound"
    /\ returncode' = -1
    /\ ffExit' = [kind |-> "running", code |-> 0, removed |-> "nothing"]

(***************************************************************************)
(* main                                                                    *)
(***************************************************************************)

\* main, lines 339-348: check_tmdb_exists, then the dispatch on media_type.
\* ok = FALSE: the listing request ends in raise_for_status() raising.
Main ==
    /\ pc = "main"
    /\ netCalls' = netCalls + 1
    /\ \E ok \in Oks :
        IF ~ok THEN Uncaught("HTTPError")
        ELSE IF ~check_tmdb_exists(catalog) THEN Return
        ELSE /\ pc' = (IF args.mtype = "movie" THEN "mv_get" ELSE "tv_list")
             /\ outcome' = outcome
    /\ UNCHANGED <<inputVars, fs, tvVars, pageVars, ffVars, ffExit, childVars, pipeVars, drainVars, cancelled,
                   pageFetches, launches, unpaced, progressLog, skipped, failures>>

\* main: season_range / episode_range as handed to handle_tv.
season_range == MakeRange(args.season_from, args.season_to)
episode_range == MakeRange(args.episode_from, args.episode_to)

(***************************************************************************)
(* handle_movie                                                            *)
(***************************************************************************)

\* Lines 230-238: the page request, the status check, extract_playlist_data.
MovieGet ==
    /\ pc = "mv_get"
    /\ netCalls' = netCalls + 1
    /\ pageFetches' = [pageFetches EXCEPT ![MovieUnit] = @ + 1]
    /\ \E st \in Statuses, text \in Htmls :
        LET r == SessionGet(st) IN
        IF r.raised THEN Uncaught("RetryError") /\ UNCHANGED <<pageVars, failures>>
        ELSE IF ~PageFound(r)
        THEN /\ Return
             /\ failures' = failures \cup {<<MovieUnit, "not found">>}
             /\ UNCHANGED pageVars
        ELSE /\ html' = text
             /\ data' = extract_playlist_data(text)
             /\ IF data' = None
                THEN Return /\ failures' = failures \cup {<<MovieUnit, "playlist">>}
                ELSE pc' = "mv_meta" /\ outcome' = outcome /\ UNCHANGED failures
    /\ UNCHANGED <<inputVars, fs, tvVars, ffVars, ffExit, childVars, pipeVars, drainVars, cancelled,
                   launches, unpaced, progressLog, skipped>>

\* Lines 240-252: build_playlist_url, the metadata lookup, the paths, the
\* resume rule, and the call of run_ffmpeg.
MovieResume ==
    /\ pc = "mv_meta"
    /\ netCalls' = netCalls + 1
    /\ IF ResumeSkips(args.resume, fs.dest[MovieUnit])
       THEN /\ Return
            /\ skipped' = skipped \cup {MovieUnit}
            /\ UNCHANGED <<ffVars, ffExit>>
       ELSE /\ CallFfmpeg(build_playlist_url(data), MovieUnit)
            /\ outcome' = outcome
            /\ UNCHANGED skipped
    /\ UNCHANGED <<inputVars, fs, tvVars, pageVars, childVars, pipeVars, drainVars, cancelled,
                   pageFetches, launches, unpaced, progressLog, failures>>

\* Line 252: logging.info("Saved") and return.
MovieSaved ==
    /\ pc = "mv_saved"
    /\ Return
    /\ UNCHANGED <<inputVars, fs, tvVars, pageVars, ffVars, ffExit, childVars, pipeVars, drainVars, obsVars, cancelled>>

(***************************************************************************)
(* handle_tv                                                               *)
(***************************************************************************)

\* Lines 256-265: get_available_episodes, the metadata lookup, total, done.
TvList ==
    /\ pc = "tv_list"
    /\ \E ok \in Oks :
        IF ~ok
        THEN /\ Uncaught("HTTPError")
             /\ netCalls' = netCalls + 1
             /\ UNCHANGED tvVars
        ELSE LET eps == GroupEpisodes(catalog.items) IN
             IF DOMAIN eps = {}
             THEN /\ Return
                  /\ netCalls' = netCalls + 1
                  /\ UNCHANGED tvVars
             ELSE /\ episodes' = eps
                  /\ netCalls' = netCalls + 2
                  /\ total' = TotalOf(eps)
                  /\ done' = 0
                  /\ seasonsLeft' = Sorted(DOMAIN eps)
                  /\ pc' = "tv_season"
                  /\ outcome' = outcome
                  /\ UNCHANGED <<season, episode, episodesLeft>>
    /\ UNCHANGED <<inputVars, fs, pageVars, ffVars, ffExit, childVars, pipeVars, drainVars, cancelled,
                   pageFetches, launches, unpaced, progressLog, skipped, failures>>

\* Lines 267-274: one step of "for season in sorted(episodes)".
TvSeason ==
    /\ pc = "tv_season"
    /\ IF seasonsLeft = <<>>
       THEN Return /\ UNCHANGED tvVars
       ELSE /\ season' = Head(seasonsLeft)
            /\ seasonsLeft' = Tail(seasonsLeft)
            /\ outcome' = outcome
            /\ IF ~Passes(season_range, season')
               THEN pc' = "tv_season" /\ UNCHANGED episodesLeft
               ELSE pc' = "tv_episode" /\ episodesLeft' = EpisodeOrder(episodes, season')
            /\ UNCHANGED <<episodes, total, done, episode>>
    /\ UNCHANGED <<inputVars, fs, pageVars, ffVars, ffExit, childVars, pipeVars, drainVars, obsVars, cancelled>>

\* Lines 274-288: one step of "for episode in sorted(set(episodes[season]))"
\* up to the resume rule.
TvEpisode ==
    /\ pc = "tv_episode"
    /\ outcome' = outcome
    /\ IF episodesLeft = <<>>
       THEN /\ pc' = "tv_season"
            /\ UNCHANGED <<tvVars, progressLog, skipped>>
       ELSE /\ episode' = Head(episodesLeft)
            /\ episodesLeft' = Tail(episodesLeft)
            /\ UNCHANGED <<episodes, total, season, seasonsLeft>>
            /\ IF ~Passes(episode_range, episode')
               THEN /\ pc' = "tv_episode"
                    /\ UNCHANGED <<done, progressLog, skipped>>
               ELSE /\ done' = done + 1
                    /\ progressLog' = Append(progressLog,
                           [done |-> done', total |-> total, unit |-> <<season, episode'>>])
                    /\ IF ResumeSkips(args.resume, fs.dest[<<season, episode'>>])
                       THEN /\ pc' = "tv_episode"
                            /\ skipped' = skipped \cup {<<season, episode'>>}
                       ELSE /\ pc' = "tv_get"
                            /\ UNCHANGED skipped
    /\ UNCHANGED <<inputVars, fs, pageVars, ffVars, ffExit, childVars, pipeVars, drainVars, cancelled,
                   netCalls, pageFetches, launches, unpaced, failures>>

\* Lines 290-301: the page request, the status check, extract_playlist_data
\* and the call of run_ffmpeg.
TvGet ==
    /\ pc = "tv_get"
    /\ netCalls' = netCalls + 1
    /\ pageFetches' = [pageFetches EXCEPT ![<<season, episode>>] = @ + 1]
    /\ \E st \in Statuses, text \in Htmls :
        LET r == SessionGet(st) IN
        IF r.raised
        THEN Uncaught("RetryError") /\ UNCHANGED <<pageVars, failures, ffVars, ffExit>>
        ELSE IF ~PageFound(r)
        THEN /\ pc' = "tv_episode" /\ outcome' = outcome
             /\ failures' = failures \cup {<<(<<season, episode>>), "not found">>}
             /\ UNCHANGED <<pageVars, ffVars, ffExit>>
        ELSE /\ html' = text
             /\ data' = extract_playlist_data(text)
             /\ outcome' = outcome
             /\ IF data' = None
                THEN /\ pc' = "tv_episode"
                     /\ failures' = failures \cup {<<(<<season, episode>>), "playlist">>}
                     /\ UNCHANGED <<ffVars, ffExit>>
                ELSE /\ CallFfmpeg(build_playlist_url(data'), <<season, episode>>)
                     /\ UNCHANGED failures
    /\ UNCHANGED <<inputVars, fs, tvVars, childVars, pipeVars, drainVars, cancelled,
                   launches, unpaced, progressLog, skipped>>

\* Line 306: sleep(0.4), then the next episode.
TvSleep ==
    /\ pc = "tv_sleep"
    /\ pc' = "tv_episode"
    /\ unpaced' = 0
    /\ UNCHANGED <<inputVars, fs, outcome, tvVars, pageVars, ffVars, ffExit, childVars, pipeVars, drainVars, cancelled,
                   netCalls, pageFetches, launches, progressLog, skipped, failures>>

(***************************************************************************)
(* run_ffmpeg                                                              *)
(***************************************************************************)

\* Variant of RemoveTemp that leaves the temporary file.
RemoveTempForgotten(f, u) == f

\* fs with the unit's temporary path removed: os.remove(temp_file) under
\* "if os.path.exists(temp_file)".
RemoveTemp(f, u) == [f EXCEPT !.part[u] = "absent"]

\* os.replace(temp_file, output_file): the destination takes the temporary
\* file's content and the temporary path disappears.
Replace(f, u) == [f EXCEPT !.dest[u] = f.part[u], !.part[u] = "absent"]

\* Line 113, first half: subprocess.Popen creates the two pipes and spawns
\* the child (or raises OSError when the transcoder cannot be executed).
FfPopen ==
    /\ pc = "ff_popen"
    /\ \E ok \in Oks :
        IF ok
        THEN /\ child' = "running" /\ childrc' = -1
             /\ stdout' = <<>> /\ stderr' = 0 /\ writing' = NoWrite /\ writes' = 0
             /\ UNCHANGED drainVars
             /\ launches' = [launches EXCEPT ![output_file] = @ + 1]
             /\ unpaced' = unpaced + 1
             /\ pc' = "ff_bind" /\ outcome' = outcome
             /\ UNCHANGED <<failures, ffExit>>
        ELSE /\ RaiseFromFfmpeg("OSError")
             /\ UNCHANGED <<childVars, pipeVars, drainVars, launches, unpaced>>
    /\ UNCHANGED <<inputVars, fs, tvVars, pageVars, ffVars, cancelled,
                   netCalls, pageFetches, progressLog, skipped>>

\* Lines 113-121: the assignment "process = ..." and last_seconds = -1.
FfBind ==
    /\ pc = "ff_bind"
    /\ process' = "bound"
    /\ last_seconds' = -1 /\ seen' = <<>> /\ printed' = <<>>
    /\ pc' = "ff_drain"
    /\ UNCHANGED <<inputVars, fs, outcome, tvVars, pageVars, stream_url, output_file,
                   returncode, destBefore, ffExit, childVars, pipeVars, obsVars, cancelled>>

\* Lines 123-128: one step of "for line in process.stdout".  The read blocks
\* while the pipe is empty and the child has it open; it takes the next
\* line when there is one, and the loop ends at end of file, that is when
\* the pipe is empty and the child is gone.  A line that starts with
\* "out_time_ms" is parsed with int(), which raises ValueError unless the
\* text after "=" is an integer literal.
FfDrain ==
    /\ pc = "ff_drain"
    /\ IF stdout # <<>>
       THEN LET line == Head(stdout)
                seconds == Seconds(line.value)
            IN  /\ stdout' = Tail(stdout)
                /\ IF line.key # "out_time_ms"
                   THEN /\ pc' = "ff_drain" /\ outcome' = outcome
                        /\ UNCHANGED <<drainVars, ffExit, failures>>
                   ELSE IF ~line.int
                   THEN /\ RaiseFromFfmpeg("ValueError")
                        /\ UNCHANGED drainVars
                   ELSE /\ pc' = "ff_drain" /\ outcome' = outcome
                        /\ seen' = Append(seen, line.value)
                        /\ IF seconds # last_seconds
                           THEN /\ last_seconds' = seconds
                                /\ printed' = Append(printed, seconds)
                           ELSE UNCHANGED <<last_seconds, printed>>
                        /\ UNCHANGED <<ffExit, failures>>
       ELSE /\ child # "running"
            /\ pc' = "ff_wait" /\ outcome' = outcome
            /\ UNCHANGED <<stdout, drainVars, ffExit, failures>>
    /\ UNCHANGED <<inputVars, fs, tvVars, pageVars, ffVars, childVars, stderr, writing, writes,
                   cancelled, netCalls, pageFetches, launches, unpaced, progressLog, skipped>>

\* Lines 130-140: process.wait(), print(), and the test of the return code.
FfWait ==
    /\ pc = "ff_wait"
    /\ child # "running"
    /\ returncode' = childrc
    /\ pc' = (IF Failed(returncode') THEN "ff_stderr" ELSE "ff_replace")
    /\ UNCHANGED <<inputVars, fs, outcome, tvVars, pageVars, stream_url, output_file,
                   process, destBefore, ffExit, childVars, pipeVars, drainVars, obsVars, cancelled>>

\* Line 141: process.stderr.read() takes what the pipe holds up to end of
\* file; the child is gone since wait() returned.
FfStderr ==
    /\ pc = "ff_stderr"
    /\ child # "running"
    /\ stderr' = 0
    /\ pc' = "ff_rm"
    /\ UNCHANGED <<inputVars, fs, outcome, tvVars, pageVars, ffVars, ffExit, childVars,
                   stdout, writing, writes, drainVars, obsVars, cancelled>>

\* Lines 142-143: remove the temporary file if it exists.
FfRemove ==
    /\ pc = "ff_rm"
    /\ fs' = RemoveTemp(fs, output_file)
    /\ ffExit' = [ffExit EXCEPT !.removed = fs.part[output_file]]
    /\ pc' = "ff_raise"
    /\ UNCHANGED <<inputVars, outcome, tvVars, pageVars, ffVars, childVars, pipeVars, drainVars, obsVars, cancelled>>

\* Lines 145-149: log, raise CalledProcessError(process.returncode, cmd).
FfRaise ==
    /\ pc = "ff_raise"
    /\ RaiseFromFfmpeg("CalledProcessError")
    /\ UNCHANGED <<inputVars, fs, tvVars, pageVars, ffVars, childVars, pipeVars, drainVars, cancelled,
                   netCalls, pageFetches, launches, unpaced, progressLog, skipped>>

\* Line 152: os.replace(temp_file, output_file); it raises OSError when the
\* temporary file does not exist.
FfReplace ==
    /\ pc = "ff_replace"
    /\ IF fs.part[output_file] = "absent"
       THEN /\ RaiseFromFfmpeg("OSError")
            /\ UNCHANGED fs
       ELSE /\ fs' = Replace(fs, output_file)
            /\ ReturnFromFfmpeg
            /\ UNCHANGED failures
    /\ UNCHANGED <<inputVars, tvVars, pageVars, ffVars, childVars, pipeVars, drainVars, cancelled,
                   netCalls, pageFetches, launches, unpaced, progressLog, skipped>>

\* Lines 133-135: the handler's logging.warning and process.kill().  With
\* "process" never assigned the name lookup raises UnboundLocalError.
FfExcKill ==
    /\ pc = "ff_exc_kill"
    /\ IF process = "unbound"
       THEN /\ RaiseFromFfmpeg("UnboundLocalError")
            /\ UNCHANGED childVars
       ELSE /\ child' = (IF child = "running" THEN "killed" ELSE child)
            /\ childrc' = (IF child = "running" THEN -9 ELSE childrc)
            /\ pc' = "ff_exc_rm" /\ outcome' = outcome
            /\ UNCHANGED <<failures, ffExit>>
    /\ UNCHANGED <<inputVars, fs, tvVars, pageVars, ffVars, pipeVars, drainVars, cancelled,
                   netCalls, pageFetches, launches, unpaced, progressLog, skipped>>

\* Lines 136-137: the handler removes the temporary file if it exists.
FfExcRemove ==
    /\ pc = "ff_exc_rm"
    /\ fs' = RemoveTemp(fs, output_file)
    /\ ffExit' = [ffExit EXCEPT !.removed = fs.part[output_file]]
    /\ pc' = "ff_exc_raise"
    /\ UNCHANGED <<inputVars, outcome, tvVars, pageVars, ffVars, childVars, pipeVars, drainVars, obsVars, cancelled>>

\* Line 138: the handler re-raises.
FfExcRaise ==
    /\ pc = "ff_exc_raise"
    /\ RaiseFromFfmpeg("KeyboardInterrupt")
    /\ UNCHANGED <<inputVars, fs, tvVars, pageVars, ffVars, childVars, pipeVars, drainVars, cancelled,
                   netCalls, pageFetches, launches, unpaced, progressLog, skipped>>

(***************************************************************************)
(* The transcoder child process ("-y ... temp_file").                      *)
(***************************************************************************)

\* The child opens its output: the temporary path is created or truncated.
ChildOpen ==
    /\ child = "running"
    /\ fs.part[output_file] \in {"absent", "stale"}
    /\ fs' = [fs EXCEPT !.part[output_file] = "partial"]
    /\ UNCHANGED <<inputVars, pc, outcome, tvVars, pageVars, ffVars, ffExit, childVars, pipeVars, drainVars,
                   obsVars, cancelled>>

\* The pipe has room for one more write.
HasRoom(pipe) ==
    IF pipe = "stdout" THEN Len(stdout) < PipeCapacity ELSE stderr < PipeCapacity

\* The child writes a progress line to standard output or a piece of
\* diagnostics to standard error; with the pipe full it blocks in the write.
ChildWrite ==
    /\ scenario = "supervise"
    /\ child = "running" /\ writing = NoWrite
    /\ writes < MaxWrites
    /\ writes' = writes + 1
    /\ \E w \in ChildWrites :
        IF HasRoom(w.pipe)
        THEN /\ stdout' = (IF w.pipe = "stdout" THEN Append(stdout, w.line) ELSE stdout)
             /\ stderr' = (IF w.pipe = "stderr" THEN stderr + 1 ELSE stderr)
             /\ UNCHANGED writing
        ELSE /\ writing' = w
             /\ UNCHANGED <<stdout, stderr>>
    /\ UNCHANGED <<inputVars, fs, pc, outcome, tvVars, pageVars, ffVars, ffExit, childVars,
                   drainVars, obsVars, cancelled>>

\* A blocked write completes once the reader has made room in the pipe.
ChildUnblock ==
    /\ child = "running" /\ writing # NoWrite
    /\ HasRoom(writing.pipe)
    /\ stdout' = (IF writing.pipe = "stdout" THEN Append(stdout, writing.line) ELSE stdout)
    /\ stderr' = (IF writing.pipe = "stderr" THEN stderr + 1 ELSE stderr)
    /\ writing' = NoWrite
    /\ UNCHANGED <<inputVars, fs, pc, outcome, tvVars, pageVars, ffVars, ffExit, childVars,
                   writes, drainVars, obsVars, cancelled>>

\* The child exits, unless it is blocked in a write.  Exit code 0 means the
\* output was written completely; any other code leaves whatever the
\* temporary path held.
ChildExit ==
    /\ child = "running" /\ writing = NoWrite
    /\ \E rc \in ExitCodes :
        /\ rc = 0 => fs.part[output_file] = "partial"
        /\ fs' = (IF rc = 0 THEN [fs EXCEPT !.part[output_file] = "complete"] ELSE fs)
        /\ childrc' = rc
    /\ child' = "exited"
    /\ UNCHANGED <<inputVars, pc, outcome, tvVars, pageVars, ffVars, ffExit, pipeVars, drainVars,
                   obsVars, cancelled>>

(***************************************************************************)
(* The operator.                                                           *)
(***************************************************************************)

\* The positions inside run_ffmpeg.
InFfmpeg(p) ==
    p \in {"ff_popen", "ff_bind", "ff_drain", "ff_wait", "ff_stderr", "ff_rm", "ff_raise",
           "ff_replace", "ff_exc_kill", "ff_exc_rm", "ff_exc_raise"}

\* SIGINT: Python raises KeyboardInterrupt in the main thread at its current
\* position.  Inside run_ffmpeg's try block the except clause takes it;
\* anywhere else it propagates.
Interrupt ==
    /\ scenario = "adverse"
    /\ pc # "done"
    /\ cancelled' = (IF cancelled # "no" THEN cancelled
                     ELSE IF pc \in TryBlock THEN "try"
                     ELSE IF InFfmpeg(pc) THEN "ffmpeg" ELSE "batch")
    /\ IF pc \in TryBlock
       THEN pc' = "ff_exc_kill" /\ outcome' = outcome /\ UNCHANGED <<failures, ffExit>>
       ELSE IF InFfmpeg(pc)
       THEN RaiseFromFfmpeg("KeyboardInterrupt")
       ELSE Uncaught("KeyboardInterrupt") /\ UNCHANGED <<failures, ffExit>>
    /\ UNCHANGED <<inputVars, fs, tvVars, pageVars, ffVars, childVars, pipeVars, drainVars,
                   netCalls, pageFetches, launches, unpaced, progressLog, skipped>>

\* The operator starts the program a second time with the same command
\* line, once the first invocation and its child are gone.
StartRun ==
    /\ scenario = "adverse"
    /\ pc = "done"
    /\ ~rerun
    /\ child # "running"
    /\ rerun' = TRUE
    /\ prevOutcome' = (IF outcome = "returned" THEN "returned" ELSE "exception")
    /\ pc' = "main"
    /\ outcome' = "running"
    /\ episodes' = <<>> /\ total' = 0 /\ done' = 0 /\ season' = 0 /\ episode' = 0
    /\ seasonsLeft' = <<>> /\ episodesLeft' = <<>>
    /\ html' = NoPage /\ data' = None
    /\ stream_url' = None
    /\ output_file' = MovieUnit /\ process' = "unbound" /\ returncode' = -1
    /\ child' = "none" /\ childrc' = -1
    /\ stdout' = <<>> /\ stderr' = 0 /\ writing' = NoWrite /\ writes' = 0
    /\ last_seconds' = -1 /\ seen' = <<>> /\ printed' = <<>>
    /\ ffExit' = NotCalled
    /\ fsAtStart' = fs /\ destBefore' = fs.dest[MovieUnit]
    /\ netCalls' = 0 /\ pageFetches' = Zero /\ launches' = Zero /\ unpaced' = 0
    /\ progressLog' = <<>> /\ skipped' = {} /\ failures' = {}
    /\ cancelled' = "no"
    /\ UNCHANGED <<scenario, args, catalog, fs>>

Next ==
    \/ Main
    \/ MovieGet \/ MovieResume \/ MovieSaved
    \/ TvList \/ TvSeason \/ TvEpisode \/ TvGet \/ TvSleep
    \/ FfPopen \/ FfBind \/ FfDrain \/ FfWait \/ FfStderr \/ FfRemove \/ FfRaise
    \/ FfReplace
    \/ FfExcKill \/ FfExcRemove \/ FfExcRaise
    \/ ChildOpen \/ ChildWrite \/ ChildUnblock \/ ChildExit
    \/ Interrupt
    \/ StartRun

NoRangeArgs(mtype) ==
    [mtype : {mtype}, resume : BOOLEAN,
     season_from : {None}, season_to : {None},
     episode_from : {None}, episode_to : {None}]

TvArgs(resumes, SeasonBounds, EpisodeBounds) ==
    [mtype : {"tv"}, resume : resumes,
     season_from : SeasonBounds, season_to : SeasonBounds,
     episode_from : EpisodeBounds, episode_to : EpisodeBounds]

\* Both bounds of the season range given, or neither.
BothOrNeither(a) == (a.season_from = None) <=> (a.season_to = None)

\* Movie mode, adverse environment, every content of the two paths.
InitMovie ==
    InitWith("adverse", NoRangeArgs("movie"), [member : BOOLEAN, items : {<<>>}],
             {"absent", "empty", "old"}, {"absent", "stale"})

\* TV mode, adverse environment, short listings, with and without a season
\* range, the identifier in the catalog listing or not.
InitBatch ==
    InitWith("adverse", {a \in TvArgs(BOOLEAN, {None, <<1>>}, {None}) : BothOrNeither(a)},
             [member : BOOLEAN, items : SeqsUpTo(BatchUnits, MaxBatch)],
             {"absent", "old"}, {"absent"})

\* TV mode, plain environment, every listing and every combination of range
\* bounds.
InitRanges ==
    InitWith("plain", TvArgs({FALSE}, OptInts(BoundValues), OptInts(BoundValues)),
             [member : {TRUE}, items : SeqsUpTo(TvUnits, MaxItems)],
             {"absent"}, {"absent"})

\* Movie mode, nothing fails, every page the catalog may serve.
InitResolver ==
    InitWith("resolver", {a \in NoRangeArgs("movie") : ~a.resume},
             [member : {TRUE}, items : {<<>>}], {"absent"}, {"absent"})

\* Movie mode, the page is found, the transcoder reports progress, writes
\* diagnostics and exits with any code.
InitSupervise ==
    InitWith("supervise", {a \in NoRangeArgs("movie") : ~a.resume},
             [member : {TRUE}, items : {<<>>}], {"absent"}, {"absent"})

Init == InitMovie \/ InitBatch \/ InitRanges \/ InitResolver \/ InitSupervise

Spec == Init /\ [][Next]_vars

TypeOK ==
    /\ pc \in {"main", "mv_get", "mv_meta", "mv_saved", "tv_list", "tv_season",
               "tv_episode", "tv_get", "tv_sleep", "done"} \/ InFfmpeg(pc)
    /\ child \in {"none", "running", "exited", "killed"}
    /\ rerun \in BOOLEAN
    /\ \A u \in AllUnits : /\ fs.dest[u] \in {"absent", "empty", "old", "complete"}
                           /\ fs.part[u] \in {"absent", "stale", "partial", "complete"}
    /\ Len(stdout) <= PipeCapacity /\ stderr \in 0..PipeCapacity
    /\ writes \in 0..MaxWrites
    /\ writing \in ChildWrites \cup {NoWrite}
    /\ data # None => stream_url = None \/ stream_url.path = data.playlist_url.path

(***************************************************************************)
(* What the properties speak about.                                        *)
(***************************************************************************)

\* The units whose "Episode done/total" line was logged: those the TV loop
\* reached past the two range filters.
Attempted == {progressLog[i].unit : i \in DOMAIN progressLog}

\* x is inside the inclusive range rng; no range (None) holds everything.
Inside(rng, x) == rng = None \/ (rng[1] <= x /\ x <= rng[2])

\* The listed units inside the season range and the episode range as main
\* hands them to handle_tv.
Surviving ==
    {u \in Range(catalog.items) : Inside(season_range, u[1]) /\ Inside(episode_range, u[2])}

\* A TV invocation that went through its whole loop and returned.
TvCompleted ==
    args.mtype = "tv" /\ catalog.member /\ pc = "done" /\ outcome = "returned"

\* u comes before v in (season, episode) order.
Before(u, v) == u[1] < v[1] \/ (u[1] = v[1] /\ u[2] < v[2])

\* The exceptions that are none of the recoverable per-unit failures.
FatalOutcomes ==
    {"KeyboardInterrupt", "UnboundLocalError", "HTTPError", "RetryError", "OSError", "ValueError"}

(***************************************************************************)
(* C1.  The final destination path holds what it held when run_ffmpeg was  *)
(* called, or the complete output of a transcode that exited with code 0;  *)
(* it differs from before only after the rename that follows a zero exit   *)
(* code, never after a non-zero exit or an interrupt inside run_ffmpeg.    *)
(***************************************************************************)
C1_FinalPathAtomic ==
    /\ \A u \in AllUnits : fs.dest[u] \in {fsAtStart.dest[u], "complete"}
    /\ fs.dest[output_file] # destBefore =>
          /\ fs.dest[output_file] = "complete"
          /\ returncode = 0
          /\ ffExit.kind = "returned"
    /\ returncode \notin {-1, 0} => fs.dest[output_file] = destBefore
    /\ cancelled \in {"try", "ffmpeg"} => fs.dest[output_file] = destBefore

\* A non-empty older file at the destination was replaced by the complete
\* output after a zero exit.
C1_Witness ==
    /\ destBefore = "old"
    /\ fs.dest[output_file] = "complete"
    /\ returncode = 0 /\ ffExit.kind = "returned"

(***************************************************************************)
(* C2.  After the child exited with a non-zero code, run_ffmpeg never      *)
(* returns normally and never renames; when it raises CalledProcessError   *)
(* the exception carries that exit code and the temporary file is gone;    *)
(* and unless the operator interrupts, CalledProcessError is how it ends.  *)
(***************************************************************************)
C2_NonZeroExitRaises ==
    /\ (returncode # -1 /\ returncode # 0) =>
          /\ ffExit.kind \in {"running", "CalledProcessError", "KeyboardInterrupt"}
          /\ fs.dest[output_file] = destBefore
          /\ (ffExit.kind # "running" /\ cancelled = "no") =>
                ffExit.kind = "CalledProcessError"
    /\ ffExit.kind = "CalledProcessError" =>
          /\ returncode # -1 /\ returncode # 0
          /\ ffExit.code = returncode
          /\ fs.part[output_file] = "absent"

\* The child exited with code 1 leaving a partial temporary file, which was
\* removed before CalledProcessError(1) was raised.
C2_Witness ==
    /\ ffExit = [kind |-> "CalledProcessError", code |-> 1, removed |-> "partial"]
    /\ fs.part[output_file] = "absent"
    /\ destBefore = "old" /\ fs.dest[output_file] = "old"

(***************************************************************************)
(* C3 (as claimed).  Once the operator's interrupt arrived while           *)
(* run_ffmpeg was supervising and run_ffmpeg has ended, the child is not   *)
(* running, the temporary file is absent and the exception that left       *)
(* run_ffmpeg is the KeyboardInterrupt.                                    *)
(***************************************************************************)
C3_InterruptCleansUp ==
    (cancelled \in {"try", "ffmpeg"} /\ ffExit.kind # "running") =>
        /\ child # "running"
        /\ fs.part[output_file] = "absent"
        /\ ffExit.kind = "KeyboardInterrupt"

(***************************************************************************)
(* C4.  In TV mode, once an interrupt has arrived the controller never     *)
(* goes on with the loop: the thread is in run_ffmpeg's handler or the     *)
(* invocation has ended with an exception, so no later unit is fetched or  *)
(* handed to the transcoder.                                               *)
(***************************************************************************)
C4_CancelStopsBatch ==
    (args.mtype = "tv" /\ cancelled # "no") =>
        /\ pc \in {"ff_exc_kill", "ff_exc_rm", "ff_exc_raise", "done"}
        /\ pc = "done" => outcome \in {"KeyboardInterrupt", "UnboundLocalError"}

\* An interrupt during a transcode ended the invocation while episodes of
\* the season were still to come.
C4_Witness ==
    /\ args.mtype = "tv" /\ cancelled = "try"
    /\ pc = "done" /\ outcome = "KeyboardInterrupt"
    /\ episodesLeft # <<>>

(***************************************************************************)
(* C5 (as claimed).  In movie mode with resume, when the movie is skipped  *)
(* because a non-empty file is at its destination, no catalog page was     *)
(* requested for it and no transcode was launched.                         *)
(***************************************************************************)
C5_MovieSkipWithoutNetwork ==
    (args.mtype = "movie" /\ args.resume /\ MovieUnit \in skipped) =>
        pageFetches[MovieUnit] = 0 /\ launches[MovieUnit] = 0

(***************************************************************************)
(* C6 (as claimed).  A second invocation with resume, started after the    *)
(* first one returned and when every unit of the batch has a non-empty     *)
(* file at its destination, makes no network call and launches no          *)
(* transcode, as long as no exception ends it.                             *)
(***************************************************************************)
C6_SecondRunDoesNothing ==
    (/\ rerun /\ args.resume /\ catalog.member
     /\ prevOutcome = "returned" /\ outcome \in {"running", "returned"}
     /\ \A u \in UnitsIn(args, catalog) : NonEmptyFile(fsAtStart.dest[u])) =>
        netCalls = 0 /\ \A u \in AllUnits : launches[u] = 0

(***************************************************************************)
(* C6 (amended).  In a second invocation with resume, no transcode is      *)
(* launched for a unit whose destination held a non-empty file when the    *)
(* invocation started (so for every unit the first one transcoded), and in *)
(* TV mode no catalog page is requested for it.                            *)
(***************************************************************************)
C6_SecondRunSkipsExisting ==
    (rerun /\ args.resume) =>
        \A u \in AllUnits :
            NonEmptyFile(fsAtStart.dest[u]) =>
                /\ launches[u] = 0
                /\ args.mtype = "tv" => pageFetches[u] = 0

\* A second TV invocation returned after skipping a unit the first one had
\* transcoded.
C6_Witness ==
    /\ rerun /\ prevOutcome = "returned" /\ args.resume /\ TvCompleted
    /\ \E u \in skipped : fsAtStart.dest[u] = "complete" /\ launches[u] = 0

(***************************************************************************)
(* C7.  A TV invocation that ends without an interrupt and without an      *)
(* exception other than the three recoverable failures has returned        *)
(* normally, and every listed unit that passes the range filters was       *)
(* attempted: its page was requested once unless the resume rule skipped it*)
(***************************************************************************)
C7_BatchContinues ==
    (args.mtype = "tv" /\ catalog.member /\ pc = "done" /\ outcome \notin FatalOutcomes) =>
        /\ outcome = "returned"
        /\ Attempted = Surviving
        /\ \A u \in Surviving : u \in skipped \/ pageFetches[u] = 1

\* A transcode failed for one unit and a later unit was still transcoded.
C7_Witness ==
    /\ TvCompleted
    /\ \E f \in failures, u \in Attempted :
          f[2] = "transcode" /\ Before(f[1], u) /\ launches[u] = 1

(***************************************************************************)
(* C8.  Within one invocation no unit has more than one page request, one  *)
(* transcoder launch or one progress line, however often the listing       *)
(* repeats it; and when a TV invocation completes, a unit's page was       *)
(* requested exactly once iff it passes the filters and was not skipped.   *)
(***************************************************************************)
C8_EpisodeDedup ==
    \A u \in AllUnits :
        /\ pageFetches[u] <= 1
        /\ launches[u] <= 1
        /\ Cardinality({i \in DOMAIN progressLog : progressLog[i].unit = u}) <= 1
        /\ TvCompleted => (pageFetches[u] = 1 <=> u \in Surviving \ skipped)

\* The listing repeats an item and the invocation completed with one page
\* request for it.
C8_Witness ==
    /\ TvCompleted
    /\ \E i, j \in DOMAIN catalog.items :
          i < j /\ catalog.items[i] = catalog.items[j] /\ pageFetches[catalog.items[i]] = 1

(***************************************************************************)
(* C9 (as claimed).  Every progress line is "k/total" for the k-th unit    *)
(* processed, with total the number of distinct listed units.              *)
(***************************************************************************)
C9_ProgressOverDistinctTotal ==
    \A i \in DOMAIN progressLog :
        /\ progressLog[i].done = i
        /\ progressLog[i].total = Cardinality(Range(catalog.items))

(***************************************************************************)
(* C10.  When a TV invocation completes and only one bound of the season   *)
(* range (of the episode range) was given, the units processed are those   *)
(* processed with neither bound of that range: every listed unit inside    *)
(* the other range.                                                        *)
(***************************************************************************)
C10_OneBoundIsNoFilter ==
    TvCompleted =>
        /\ ((args.season_from = None) # (args.season_to = None)) =>
              Attempted = {u \in Range(catalog.items) : Inside(episode_range, u[2])}
        /\ ((args.episode_from = None) # (args.episode_to = None)) =>
              Attempted = {u \in Range(catalog.items) : Inside(season_range, u[1])}

\* Only --season-from 2 was given and a unit of season 1 was processed.
C10_Witness ==
    /\ TvCompleted
    /\ args.season_from = <<2>> /\ args.season_to = None
    /\ \E u \in Attempted : u[1] = 1

(***************************************************************************)
(* C11.  When a listing request failed (HTTPError), or the identifier is   *)
(* not in the catalog listing for its kind, or in TV mode the episode      *)
(* listing has no item for it, the invocation requests no per-unit catalog *)
(* page and launches no transcoder.                                        *)
(***************************************************************************)
C11_WholeRunFailureAbortsEarly ==
    (\/ outcome = "HTTPError"
     \/ ~catalog.member
     \/ (args.mtype = "tv" /\ catalog.items = <<>>)) =>
        /\ \A u \in AllUnits : pageFetches[u] = 0 /\ launches[u] = 0
        /\ pc \in {"main", "tv_list", "tv_season", "done"}

\* A TV invocation for an identifier that is not in the catalog listing
\* returned although the episode listing has items for it.
C11_Witness ==
    /\ args.mtype = "tv" /\ ~catalog.member /\ catalog.items # <<>>
    /\ pc = "done" /\ outcome = "returned" /\ netCalls = 1

(***************************************************************************)
(* C12.  Whenever a page was handed to extract_playlist_data, the result   *)
(* is None if the page lacks any of the three fields, and a result other   *)
(* than None holds the three fields' texts, all of them present in the     *)
(* page: never a partial result.                                           *)
(***************************************************************************)
C12_ExtractAllOrNothing ==
    /\ (\E f \in PlaylistFields : html[f] = None) => data = None
    /\ data # None =>
          /\ \A f \in PlaylistFields : html[f] # None
          /\ data = [playlist_url |-> html.url[1], token |-> html.token[1],
                     expires |-> html.expires[1]]

\* A page with the playlist url and the expires field but no token was
\* fetched, and nothing was extracted from it.
C12_Witness ==
    /\ html.url # None /\ html.expires # None /\ html.token = None
    /\ data = None
    /\ pageFetches[MovieUnit] = 1 /\ pc = "done" /\ outcome = "returned"

\* The values a URL's query string gives the parameter k, in order, empty
\* values included.
QueryValues(q, k) ==
    LET Named(kv) == kv[1] = k
        sel == SelectSeq(q, Named)
    IN  [i \in DOMAIN sel |-> sel[i][2]]

\* The keys build_playlist_url sets.
Overridden == {"token", "expires", "h", "lang"}

(***************************************************************************)
(* C13 (as claimed).  In the URL handed to run_ffmpeg every parameter of   *)
(* the extracted URL other than token, expires, h and lang has the values  *)
(* it had, repeated and empty ones included, and those four are exactly    *)
(* the extracted token, the extracted expires, "1" and "en".               *)
(***************************************************************************)
C13_BuildParseRoundTrip ==
    pc = "ff_popen" =>
        /\ stream_url.path = data.playlist_url.path
        /\ \A k \in ParamKeys \ Overridden :
              QueryValues(stream_url.query, k) = QueryValues(data.playlist_url.query, k)
        /\ QueryValues(stream_url.query, "token") = <<data.token>>
        /\ QueryValues(stream_url.query, "expires") = <<data.expires>>
        /\ QueryValues(stream_url.query, "h") = <<"1">>
        /\ QueryValues(stream_url.query, "lang") = <<"en">>

(***************************************************************************)
(* C14 (as claimed).  In TV mode no response status of a per-unit page     *)
(* request ends the invocation: a status outside 200-299, those of the     *)
(* retry set included, makes the unit "not found" and the loop goes on, so *)
(* the invocation never ends with the transport's RetryError.              *)
(***************************************************************************)
C14_PageStatusNeverAborts ==
    args.mtype = "tv" => outcome # "RetryError"

InsideSupplied(from, to, x) ==
    (from # None /\ to # None) => (from[1] <= x /\ x <= to[1])

(***************************************************************************)
(* C17 (as claimed).  When a TV invocation completes, the units processed  *)
(* are exactly the listed units whose season is inside the season range,   *)
(* if both its bounds were supplied, and whose episode is inside the       *)
(* episode range, if both its bounds were supplied, for every pair of      *)
(* integers argparse accepts.                                              *)
(***************************************************************************)
C17_SuppliedRangesFilter ==
    TvCompleted =>
        Attempted = {u \in Range(catalog.items) :
                        /\ InsideSupplied(args.season_from, args.season_to, u[1])
                        /\ InsideSupplied(args.episode_from, args.episode_to, u[2])}

(***************************************************************************)
(* C18 (as claimed).  In TV mode a sleep(0.4) is executed between any two  *)
(* consecutive transcoder launches of an invocation, whether the earlier   *)
(* transcode succeeded or failed: no second launch without a sleep since   *)
(* the first.                                                              *)
(***************************************************************************)
C18_PacedLaunches ==
    args.mtype = "tv" => unpaced <= 1

\* q never decreases; q increases strictly.
NonDecreasing(q) == \A i, j \in DOMAIN q : i < j => q[i] <= q[j]
StrictlyIncreasing(q) == \A i, j \in DOMAIN q : i < j => q[i] < q[j]

(***************************************************************************)
(* C15 (as claimed).  While the elapsed values of the progress lines read  *)
(* so far never decreased, the seconds printed are strictly increasing and *)
(* are exactly the whole seconds (elapsed value divided by 1,000,000,      *)
(* rounded down) of the lines read: each is printed once.                  *)
(***************************************************************************)
C15_ProgressOncePerSecond ==
    NonDecreasing(seen) =>
        /\ StrictlyIncreasing(printed)
        /\ Range(printed) = {v \div 1000000 : v \in Range(seen)}

(***************************************************************************)
(* C19 (as claimed).  No state has run_ffmpeg blocked in the read of the   *)
(* child's standard output (the pipe empty, the child alive) while the     *)
(* child is blocked in a write to the full standard-error pipe.            *)
(***************************************************************************)
C19_NoPipeDeadlock ==
    ~(/\ pc = "ff_drain" /\ stdout = <<>>
      /\ child = "running"
      /\ writing.pipe = "stderr" /\ stderr = PipeCapacity)

(***************************************************************************)
(* C20 (as claimed, for the exit it names).  When run_ffmpeg is left by    *)
(* the exception raised while parsing a progress line whose elapsed value  *)
(* is not an integer, the child is not running and the temporary file is   *)
(* absent.                                                                 *)
(***************************************************************************)
C20_ParseErrorCleansUp ==
    ffExit.kind = "ValueError" =>
        /\ child # "running"
        /\ fs.part[output_file] = "absent"

=============================================================================
